---------------------------- MODULE Spec2Model ----------------------------
(***************************************************************************)
(* The order service of part3/01-fastapi/app/main.py: an in-memory list of *)
(* orders, read and mutated by the handlers of a FastAPI application.      *)
(* The handlers are coroutines on one event loop: a handler runs without   *)
(* interruption up to an await, and only make_order awaits, once per       *)
(* uploaded file.                                                          *)
(***************************************************************************)
EXTENDS Integers, Sequences, FiniteSets, TLC

VARIABLES orders,     \* the module-level list `orders`
          req,        \* the make_order coroutines in flight, one per slot
          now,        \* the latest reading of datetime.now()
          response    \* what the handler that finished last returned

vars == <<orders, req, now, response>>

-----------------------------------------------------------------------------
(* Bounds of the model *)

MaxProducts == 3    \* products held by the store and by the requests in flight
MaxUpdate == 2      \* products in the body of one PATCH /order/{order_id}

Requests == {1, 2}  \* slots for concurrent POST /order requests
Serial == {1}       \* the slot used when one POST /order is served at a time

Time == {0, 1}      \* readings of the clock

-----------------------------------------------------------------------------
(* Values *)

None == [none |-> TRUE]

Product(id, name, price) ==
    [id |-> id, name |-> name, price |-> price, result |-> <<>>]

InferenceImageProduct(id, result) ==
    [id |-> id, name |-> "inference_image_product", price |-> 100,
     result |-> result]

Order(id, products, created_at, updated_at) ==
    [id |-> id, products |-> products,
     created_at |-> created_at, updated_at |-> updated_at]

ProductIds(order) == {order.products[i].id : i \in DOMAIN order.products}

OrderIds(store) == {store[i].id : i \in DOMAIN store}

StoredProductIds == UNION {ProductIds(orders[i]) : i \in DOMAIN orders}

\* Every UUID the program holds: in the store or in a coroutine's local list.
UsedIds ==
    OrderIds(orders) \cup StoredProductIds
    \cup UNION {{req[r].products[k].id : k \in DOMAIN req[r].products} : r \in Requests}

\* uuid4(): an identifier different from every identifier in use.  The ids
\* of a request that failed are held by nobody and were shown to nobody, so
\* taking the least unused number tells no state from one with a newer id.
uuid4(used) ==
    CHOOSE u \in 1 .. (Cardinality(used) + 1) :
        u \notin used /\ \A v \in 1 .. (u - 1) : v \in used

-----------------------------------------------------------------------------
(* Order *)

\* sum(): from 0, left to right.
RECURSIVE sum(_)
sum(prices) ==
    IF prices = <<>> THEN 0
    ELSE sum(SubSeq(prices, 1, Len(prices) - 1)) + prices[Len(prices)]

RECURSIVE sum_distinct(_)
sum_distinct(S) ==
    IF S = {} THEN 0
    ELSE LET x == CHOOSE x \in S : TRUE IN x + sum_distinct(S \ {x})

\* A bill that counts each price once.
bill_distinct(order) ==
    sum_distinct({order.products[i].price : i \in DOMAIN order.products})

bill(order) == sum([i \in DOMAIN order.products |-> order.products[i].price])

\* An add_product that stamps the order also when the product is a duplicate.
add_product_touch(order, product, t) ==
    IF product.id \in {order.products[i].id : i \in DOMAIN order.products}
    THEN [order EXCEPT !.updated_at = t]
    ELSE [order EXCEPT !.products = Append(@, product), !.updated_at = t]

\* An add_product without the membership test.
add_product_always(order, product, t) ==
    [order EXCEPT !.products = Append(@, product), !.updated_at = t]

add_product(order, product, t) ==
    IF product.id \in {order.products[i].id : i \in DOMAIN order.products}
    THEN order
    ELSE [order EXCEPT !.products = Append(@, product), !.updated_at = t]

\* BaseModel.copy(): a new object with the same field values.
copy(order) ==
    [id |-> order.id, products |-> order.products,
     created_at |-> order.created_at, updated_at |-> order.updated_at]

-----------------------------------------------------------------------------
(* The store *)

RECURSIVE first_match(_, _, _)
first_match(store, order_id, i) ==
    IF i > Len(store) THEN 0
    ELSE IF store[i].id = order_id THEN i
    ELSE first_match(store, order_id, i + 1)

\* A lookup that takes the first order, whatever its id.
get_order_by_id_first(store, order_id) ==
    IF store = <<>> THEN None ELSE store[1]

get_order_by_id(store, order_id) ==
    LET i == first_match(store, order_id, 1)
    IN  IF i = 0 THEN None ELSE store[i]

\* orders.insert(0, order) in the place of orders.append(order).
prepend(store, order) == <<order>> \o store

\* An append that overwrites the last order of the store.
append_over(store, order) ==
    IF store = <<>> THEN <<order>> ELSE [store EXCEPT ![Len(store)] = order]

append(store, order) == Append(store, order)

\* The loop of update_order_by_id: add_product on the same order, product
\* by product; ts[k] is the clock the k-th call reads if it reads it.
RECURSIVE add_all(_, _, _)
add_all(order, products, ts) ==
    IF products = <<>> THEN order
    ELSE add_all(add_product(order, Head(products), Head(ts)),
                 Tail(products), Tail(ts))

\* An update that adds the products to the copy and leaves the stored order.
update_order_by_id_copy(store, order_id, products, ts) ==
    LET i == first_match(store, order_id, 1)
    IN  IF i = 0 THEN [store |-> store, ret |-> None]
        ELSE [store |-> store, ret |-> add_all(copy(store[i]), products, ts)]

\* An update that creates the order it does not find.
update_order_by_id_upsert(store, order_id, products, ts) ==
    LET i == first_match(store, order_id, 1)
    IN  IF i = 0
        THEN [store |-> Append(store, add_all(Order(order_id, <<>>, 0, 0), products, ts)),
              ret |-> None]
        ELSE [store |-> [store EXCEPT ![i] = add_all(store[i], products, ts)],
              ret |-> add_all(store[i], products, ts)]

\* update_order_by_id: the store afterwards and the value returned.
update_order_by_id(store, order_id, products, ts) ==
    LET i == first_match(store, order_id, 1)
    IN  IF i = 0 THEN [store |-> store, ret |-> None]
        ELSE LET existing_order == add_all(store[i], products, ts)
                 updated_order ==
                     IF products = <<>> THEN copy(store[i]) ELSE existing_order
             IN  [store |-> [store EXCEPT ![i] = existing_order],
                  ret |-> updated_order]

-----------------------------------------------------------------------------
(* The classification adapter.  The bytes of an uploaded image are a       *)
(* sequence; the empty one cannot be decoded.                              *)

Corrupt == <<>>

Classifiable(image_bytes) == image_bytes # Corrupt

predict_from_image_byte(image_bytes) == <<[class |-> image_bytes[1]]>>

-----------------------------------------------------------------------------
(* Inputs *)

SeqsUpTo(S, n) == UNION {[1 .. k -> S] : k \in 0 .. n}

\* File(...) is required: an upload has a file at least.  The k-th file of
\* an upload is the image k or a corrupt file.
Uploads ==
    {files \in SeqsUpTo({Corrupt} \cup {<<k>> : k \in 1 .. MaxProducts}, MaxProducts) :
        /\ files # <<>>
        /\ \A k \in DOMAIN files : files[k] \in {Corrupt, <<k>>}}

\* n successive readings of a clock that read `from` last.
Readings(n, from) ==
    {ts \in [1 .. n -> Time] :
        /\ \A k \in 1 .. n : ts[k] >= from
        /\ \A k \in 1 .. (n - 1) : ts[k] <= ts[k + 1]}

\* Products a client makes up: an id twice with two prices, and another id.
ClientProducts ==
    {Product(-1, "item", -5), Product(-1, "item", 10), Product(-2, "item", 10)}

\* The first product of an order, as a client that read the order sends it back.
Echo(order_id) ==
    LET order == get_order_by_id(orders, order_id)
    IN  IF order = None THEN {}
        ELSE {Product(order.products[1].id, order.products[1].name,
                      order.products[1].price)}

\* The bodies of a PATCH of order_id.
UpdateBodies(order_id) == SeqsUpTo(ClientProducts \cup Echo(order_id), MaxUpdate)

\* The ids a client asks for: those of the stored orders and one of no order.
LookupIds == {-1} \cup OrderIds(orders)

RECURSIVE Held(_)
Held(store) ==
    IF store = <<>> THEN 0 ELSE Len(Head(store).products) + Held(Tail(store))

RECURSIVE Reserved(_)
Reserved(R) ==
    IF R = {} THEN 0
    ELSE LET r == CHOOSE r \in R : TRUE
         IN  Len(req[r].files) + Reserved(R \ {r})

Idle == [pc |-> "idle", files |-> <<>>, products |-> <<>>]

Reply(op, order_id, status, body) ==
    [op |-> op, order_id |-> order_id, status |-> status, body |-> body]

-----------------------------------------------------------------------------
(* Handlers *)

Init ==
    /\ orders = <<>>
    /\ req = [r \in Requests |-> Idle]
    /\ now = 0
    /\ response = Reply("none", 0, "none", 0)

\* GET /order
get_orders ==
    /\ response' = Reply("get_orders", 0, "ok", orders)
    /\ UNCHANGED <<orders, req, now>>

\* GET /order/{order_id}
get_order(order_id) ==
    LET order == get_order_by_id(orders, order_id)
    IN  /\ response' = IF order = None
                       THEN Reply("get_order", order_id, "not_found", 0)
                       ELSE Reply("get_order", order_id, "ok", order)
        /\ UNCHANGED <<orders, req, now>>

\* POST /order, up to the first await file.read().  The coroutine takes the
\* lowest free slot; the second conjunct and the third bound the model.
make_order_begin(r, files) ==
    /\ req[r].pc = "idle"
    /\ \A q \in Requests : q < r => req[q].pc # "idle"
    /\ Held(orders) + Reserved(Requests) + Len(files) <= MaxProducts
    /\ req' = [req EXCEPT ![r] = [pc |-> "reading", files |-> files,
                                  products |-> <<>>]]
    /\ UNCHANGED <<orders, now, response>>

\* A make_order that keeps what it has classified when a file fails.
make_order_resume_partial(r) ==
    /\ req[r].pc = "reading"
    /\ LET k == Len(req[r].products) + 1
           image_bytes == req[r].files[k]
       IN  IF ~Classifiable(image_bytes)
           THEN \E t1 \in Time, t2 \in Time :
                   /\ now <= t1 /\ t1 <= t2
                   /\ orders' = append(orders, Order(uuid4(UsedIds),
                                                     req[r].products, t1, t2))
                   /\ response' = Reply("make_order", 0, "error", 0)
                   /\ now' = t2
                   /\ req' = [req EXCEPT ![r] = Idle]
           ELSE LET product == InferenceImageProduct(uuid4(UsedIds),
                                   predict_from_image_byte(image_bytes))
                    products == Append(req[r].products, product)
                IN  IF k < Len(req[r].files)
                    THEN /\ req' = [req EXCEPT ![r].products = products]
                         /\ UNCHANGED <<orders, now, response>>
                    ELSE \E t1 \in Time, t2 \in Time :
                            /\ now <= t1 /\ t1 <= t2
                            /\ LET new_order ==
                                      Order(uuid4(UsedIds \cup {product.id}),
                                            products, t1, t2)
                               IN  /\ orders' = append(orders, new_order)
                                   /\ response' = Reply("make_order", 0, "ok",
                                                        new_order)
                            /\ now' = t2
                            /\ req' = [req EXCEPT ![r] = Idle]

\* POST /order, from one await file.read() to the next one, or to the end
make_order_resume(r) ==
    /\ req[r].pc = "reading"
    /\ LET k == Len(req[r].products) + 1
           image_bytes == req[r].files[k]
       IN  IF ~Classifiable(image_bytes)
           THEN \* predict_from_image_byte raises and nothing catches it
                /\ req' = [req EXCEPT ![r] = Idle]
                /\ response' = Reply("make_order", 0, "error", 0)
                /\ UNCHANGED <<orders, now>>
           ELSE LET product == InferenceImageProduct(uuid4(UsedIds),
                                   predict_from_image_byte(image_bytes))
                    products == Append(req[r].products, product)
                IN  IF k < Len(req[r].files)
                    THEN /\ req' = [req EXCEPT ![r].products = products]
                         /\ UNCHANGED <<orders, now, response>>
                    ELSE \* Order(products=products): created_at, then updated_at
                         \E t1 \in Time, t2 \in Time :
                            /\ now <= t1 /\ t1 <= t2
                            /\ LET new_order ==
                                      Order(uuid4(UsedIds \cup {product.id}),
                                            products, t1, t2)
                               IN  /\ orders' = append(orders, new_order)
                                   /\ response' = Reply("make_order", 0, "ok",
                                                        new_order)
                            /\ now' = t2
                            /\ req' = [req EXCEPT ![r] = Idle]

\* PATCH /order/{order_id}.  The first conjunct bounds the model.
update_order(order_id, products) ==
    \E ts \in Readings(Len(products), now) :
        \E done \in {update_order_by_id(orders, order_id, products, ts)} :
            /\ Held(done.store) + Reserved(Requests) <= MaxProducts
            /\ orders' = done.store
            /\ now' = IF products = <<>> THEN now ELSE ts[Len(products)]
            /\ response' = IF done.ret = None
                           THEN Reply("update_order", order_id, "not_found", 0)
                           ELSE Reply("update_order", order_id, "ok", done.ret)
            /\ UNCHANGED req

\* GET /bill/{order_id}
get_bill(order_id) ==
    LET found_order == get_order_by_id(orders, order_id)
    IN  /\ response' = IF found_order = None
                       THEN Reply("get_bill", order_id, "not_found", 0)
                       ELSE Reply("get_bill", order_id, "ok", bill(found_order))
        /\ UNCHANGED <<orders, req, now>>

-----------------------------------------------------------------------------
(* Specifications *)

\* Every handler, with one POST /order in flight at a time; the other
\* requests are served while it awaits a file.
Next ==
    \/ get_orders
    \/ \E order_id \in LookupIds : get_order(order_id)
    \/ \E r \in Serial, files \in Uploads : make_order_begin(r, files)
    \/ \E r \in Serial : make_order_resume(r)
    \/ \E order_id \in LookupIds :
          \E products \in UpdateBodies(order_id) : update_order(order_id, products)
    \/ \E order_id \in LookupIds : get_bill(order_id)

Spec == Init /\ [][Next]_vars

\* The handlers that write, with several POST /order in flight.
NextAsync ==
    \/ \E r \in Requests, files \in Uploads : make_order_begin(r, files)
    \/ \E r \in Requests : make_order_resume(r)
    \/ \E order_id \in LookupIds :
          \E products \in UpdateBodies(order_id) : update_order(order_id, products)

SpecAsync == Init /\ [][NextAsync]_vars

-----------------------------------------------------------------------------
(* Definitions the properties are stated with *)

\* Every id a client may name: of an order, of a product, or of nothing.
RequestIds == {-1, -2} \cup OrderIds(orders) \cup StoredProductIds

RECURSIVE PriceTotal(_)
PriceTotal(products) ==
    IF products = <<>> THEN 0
    ELSE Head(products).price + PriceTotal(Tail(products))

\* The supplied products that add_product keeps: the first of each id, when
\* the order does not hold the id.
RECURSIVE Kept(_, _, _)
Kept(held, products, k) ==
    IF k > Len(products) THEN <<>>
    ELSE IF \/ products[k].id \in held
            \/ \E j \in 1 .. (k - 1) : products[j].id = products[k].id
         THEN Kept(held, products, k + 1)
         ELSE <<products[k]>> \o Kept(held, products, k + 1)

Distinct(order) ==
    \A j, k \in DOMAIN order.products :
        j # k => order.products[j].id # order.products[k].id

Position(store, order_id) ==
    CHOOSE i \in DOMAIN store :
        store[i].id = order_id /\ \A j \in 1 .. (i - 1) : store[j].id # order_id

-----------------------------------------------------------------------------
(* C1: adding a product a second time changes nothing.  For every stored   *)
(* order, every product and all clock readings t1 <= t2, add_product       *)
(* applied twice gives the order that add_product applied once gives, its  *)
(* updated_at included; the first call appends the product and stamps the  *)
(* order exactly when the order does not hold the product's id.            *)
C1_AddProductIdempotent ==
    \A i \in DOMAIN orders :
        \A product \in ClientProducts \cup Echo(orders[i].id) :
            \A t1 \in Time, t2 \in Time :
                t1 <= t2 =>
                    LET once == add_product(orders[i], product, t1)
                        twice == add_product(once, product, t2)
                    IN  /\ twice = once
                        /\ IF product.id \in ProductIds(orders[i])
                           THEN once = orders[i]
                           ELSE /\ once.products = Append(orders[i].products, product)
                                /\ once.updated_at = t1

\* A PATCH has returned an order to which add_product has added a client's
\* product, stamping it later than its creation; the order holds one of the
\* client's ids (a second call changes nothing) and not the other (a first
\* call appends).
C1_Witness ==
    /\ response.op = "update_order" /\ response.status = "ok"
    /\ \E i \in DOMAIN orders :
          /\ response.body = orders[i]
          /\ \E product \in ClientProducts : product.id \in ProductIds(orders[i])
          /\ \E product \in ClientProducts : product.id \notin ProductIds(orders[i])
          /\ orders[i].updated_at > orders[i].created_at

(* C2: the bill is the total of the prices.  The bill of every stored      *)
(* order is the total price of its products as they are now, the bill of   *)
(* an order without products is 0, and the value GET /bill/{order_id}      *)
(* returned is the total price of the products the order has now.          *)
C2_BillCorrect ==
    /\ \A i \in DOMAIN orders : bill(orders[i]) = PriceTotal(orders[i].products)
    /\ bill(Order(0, <<>>, now, now)) = 0
    /\ (response.op = "get_bill" /\ response.status = "ok") =>
          response.body =
              PriceTotal(orders[Position(orders, response.order_id)].products)

\* GET /bill returned the bill of an order that a PATCH has extended.
C2_Witness ==
    /\ response.op = "get_bill" /\ response.status = "ok"
    /\ LET order == orders[Position(orders, response.order_id)]
       IN  /\ Len(order.products) >= 2
           /\ order.updated_at > order.created_at
           /\ response.body # 100 * Len(order.products)

(* C3: no order holds two products of the same id, in any state the store  *)
(* reaches, and whatever body a PATCH carries next (a body that repeats an *)
(* id or names an id of the order included).                               *)
C3_NoDuplicateProducts ==
    /\ \A i \in DOMAIN orders : Distinct(orders[i])
    /\ \A order_id \in OrderIds(orders) :
          \A products \in UpdateBodies(order_id) :
              LET done == update_order_by_id(orders, order_id, products,
                                             [k \in DOMAIN products |-> now])
              IN  \A i \in DOMAIN done.store : Distinct(done.store[i])

\* An order holds its inference product and a client's product, after a PATCH.
C3_Witness ==
    /\ response.op = "update_order" /\ response.status = "ok"
    /\ \E i \in DOMAIN orders :
          /\ \E product \in ClientProducts : product.id \in ProductIds(orders[i])
          /\ Len(orders[i].products) >= 2

(* C4: an update of an order that is not there changes nothing.  For      *)
(* every id of no stored order, every body and all clock readings,         *)
(* update_order_by_id returns None and the store it was given (no order    *)
(* more, and every order with its products and its updated_at); and a      *)
(* PATCH whose id is of no stored order was answered not-found.            *)
C4_UpdateNotFound ==
    /\ \A order_id \in RequestIds \ OrderIds(orders) :
          \A products \in UpdateBodies(order_id) :
              \A ts \in Readings(Len(products), now) :
                  LET done == update_order_by_id(orders, order_id, products, ts)
                  IN  done.ret = None /\ done.store = orders
    /\ (response.op = "update_order" /\ response.order_id \notin OrderIds(orders))
          => response.status = "not_found"

\* A PATCH of an id of no order was answered while the store held orders.
C4_Witness ==
    /\ response.op = "update_order" /\ response.status = "not_found"
    /\ response.order_id \notin OrderIds(orders)
    /\ Len(orders) >= 2

(* C5: a lookup finds the order of the id it is given.  For every id of a  *)
(* stored order get_order_by_id returns the first order of that id, for    *)
(* every other id it returns None, and GET /order/{order_id} answered      *)
(* accordingly.                                                            *)
C5_LookupCorrect ==
    /\ \A order_id \in RequestIds :
          LET order == get_order_by_id(orders, order_id)
          IN  IF order_id \in OrderIds(orders)
              THEN order.id = order_id /\ order = orders[Position(orders, order_id)]
              ELSE order = None
    /\ response.op = "get_order" =>
          IF response.order_id \in OrderIds(orders)
          THEN /\ response.status = "ok"
               /\ response.body.id = response.order_id
               /\ response.body = orders[Position(orders, response.order_id)]
          ELSE response.status = "not_found"

\* GET /order/{order_id} returned the second order of the store.
C5_Witness ==
    /\ response.op = "get_order" /\ response.status = "ok"
    /\ Len(orders) >= 2
    /\ response.body = orders[2]

(* C6: POST /order appends all or nothing.  A step of make_order that      *)
(* meets a file it cannot classify ends the request with an error and      *)
(* leaves the store as it was; a step that classifies a file which is not  *)
(* the last leaves the store as it was; the step that classifies the last  *)
(* file appends exactly one order, which holds one product per file, in    *)
(* the order of the files.                                                 *)
C6_MakeOrderAllOrNothing ==
    [][\A r \in Requests :
          (req[r].pc = "reading" /\ req'[r] # req[r]) =>
              LET files == req[r].files
                  k == Len(req[r].products) + 1
              IN  IF files[k] = Corrupt
                  THEN /\ orders' = orders
                       /\ req'[r] = Idle
                       /\ response'.op = "make_order" /\ response'.status = "error"
                  ELSE IF k < Len(files)
                  THEN /\ orders' = orders
                       /\ Len(req'[r].products) = k
                  ELSE /\ Len(orders') = Len(orders) + 1
                       /\ SubSeq(orders', 1, Len(orders)) = orders
                       /\ response'.op = "make_order" /\ response'.status = "ok"
                       /\ response'.body = orders'[Len(orders')]
                       /\ Len(response'.body.products) = Len(files)
                       /\ \A j \in DOMAIN files :
                             response'.body.products[j].result =
                                 <<[class |-> files[j][1]]>>]_vars

\* A request failed on a file, and the store holds an order of two products.
C6_Witness ==
    /\ response.op = "make_order" /\ response.status = "error"
    /\ \E i \in DOMAIN orders : Len(orders[i].products) >= 2

(* C7: the store only grows at its end.  In every step the ids of the      *)
(* stored orders before the step are a prefix of the ids after it, and     *)
(* what GET /order returned is the whole store, in that order.             *)
C7_AppendOnly ==
    [][/\ Len(orders) <= Len(orders')
       /\ \A i \in DOMAIN orders : orders'[i].id = orders[i].id
       /\ response'.op = "get_orders" => response'.body = orders']_vars

\* GET /order returned a store of two orders.
C7_Witness ==
    /\ response.op = "get_orders"
    /\ Len(response.body) >= 2
    /\ response.body = orders

(* C8: no stored product has a negative price. *)
C8_NonNegativePrices ==
    \A i \in DOMAIN orders :
        \A k \in DOMAIN orders[i].products : orders[i].products[k].price >= 0

(* C9: an update of an order that is there extends it in place.  For every *)
(* stored order, every body and all clock readings, the store that         *)
(* update_order_by_id leaves holds the order with its previous products    *)
(* followed by the supplied products it did not hold (the first of each    *)
(* id, in the order supplied), the value returned has the id and the       *)
(* products of that stored order (also for an empty body), and every       *)
(* other order is as it was; and what PATCH returned has the id asked for  *)
(* and the products the stored order has.                                  *)
C9_UpdateExtends ==
    /\ \A order_id \in OrderIds(orders) :
          \A products \in UpdateBodies(order_id) :
              \A ts \in Readings(Len(products), now) :
                  LET done == update_order_by_id(orders, order_id, products, ts)
                      i == Position(orders, order_id)
                  IN  /\ Len(done.store) = Len(orders)
                      /\ done.store[i].id = order_id
                      /\ done.store[i].products =
                             orders[i].products
                             \o Kept(ProductIds(orders[i]), products, 1)
                      /\ done.ret.id = order_id
                      /\ done.ret.products = done.store[i].products
                      /\ \A j \in DOMAIN orders : j # i => done.store[j] = orders[j]
    /\ (response.op = "update_order" /\ response.status = "ok") =>
          /\ response.body.id = response.order_id
          /\ response.body.products =
                 orders[Position(orders, response.order_id)].products

\* A PATCH extended one of two orders with a client's product.
C9_Witness ==
    /\ response.op = "update_order" /\ response.status = "ok"
    /\ Len(orders) >= 2
    /\ Len(response.body.products) >= 2
    /\ \E product \in ClientProducts : product.id \in ProductIds(response.body)

(* C10: no write is lost when the requests interleave at the awaits of     *)
(* make_order.  In every step every stored order keeps its place, its id   *)
(* and the ids of its products; the step in which a POST /order completes  *)
(* leaves exactly one order of the id it returns; after a PATCH of a       *)
(* stored order, whatever its body, the order holds every id supplied;     *)
(* and no order holds two products of the same id.                         *)
C10_NoLostWrite ==
    [][/\ \A i \in DOMAIN orders :
             /\ i <= Len(orders')
             /\ orders'[i].id = orders[i].id
             /\ ProductIds(orders[i]) \subseteq ProductIds(orders'[i])
       /\ \A r \in Requests :
             (/\ req[r].pc = "reading" /\ req'[r] = Idle
              /\ req[r].files[Len(req[r].products) + 1] # Corrupt) =>
                 /\ response'.status = "ok"
                 /\ Cardinality({i \in DOMAIN orders' :
                                    orders'[i].id = response'.body.id}) = 1
                 /\ Len(orders') = Len(orders) + 1
       /\ \A i \in DOMAIN orders' : Distinct(orders'[i])]_vars
    /\ [](\A order_id \in OrderIds(orders) :
             \A products \in UpdateBodies(order_id) :
                 LET done == update_order_by_id(orders, order_id, products,
                                                [k \in DOMAIN products |-> now])
                 IN  {products[k].id : k \in DOMAIN products}
                        \subseteq ProductIds(done.store[Position(orders, order_id)]))

\* The POST /order of slot 1 has completed and its order is stored, while
\* the one of slot 2, which began when slot 1 was taken, is between two files.
C10_Witness ==
    /\ req[1].pc = "idle" /\ req[2].pc = "reading"
    /\ Len(req[2].products) >= 1
    /\ response.op = "make_order" /\ response.status = "ok"
    /\ response.body \in {orders[i] : i \in DOMAIN orders}

=============================================================================
